---- MODULE Spec2Model ----
(***************************************************************************)
(* Market-data retrieval of the portfolio tracker: FinancialService        *)
(* (provider failover for quotes and searches, bulk price refresh) and the *)
(* routes that call it.                                                    *)
(*                                                                         *)
(* JavaScript values are modelled as one-field records so that values of   *)
(* different sorts can be compared: [null |-> TRUE] is null/undefined,     *)
(* [nan |-> TRUE] is NaN, [n |-> a, d |-> b] is the number a/b (floating   *)
(* point is abstracted to exact rationals), [str |-> s] is a JSON string.  *)
(***************************************************************************)
EXTENDS Integers, Sequences, FiniteSets, TLC

VARIABLES
    now,       \* the wall clock read by `new Date()`
    call,      \* one FinancialService.getCurrentPrice call
    search,    \* one POST /api/instruments/search request
    store,     \* MemStorage.instruments: id -> Instrument
    refresh,   \* one POST /api/instruments/update-prices request
    lookups,   \* the per-instrument async closures of updatePrices
    inbox,     \* the provider response that has arrived but is not yet handled
    cards,     \* what useInstrumentCards last computed
    stats,     \* one GET /api/portfolio/stats request
    norm,      \* one application of a Yahoo payload normaliser
    posts,     \* the POST /api/instruments requests received so far
    removal,   \* the DELETE /api/instruments/:id requests served so far
    rival,     \* a second POST /api/instruments/update-prices request
    analysis   \* one POST /api/portfolio/analyze request

vars ==
    <<now, call, search, store, refresh, lookups, inbox, cards, stats, norm, posts, removal,
      rival, analysis>>

----------------------------------------------------------------------------
(* Bounds of the model *)

MaxPrice == 1        \* provider prices range over 0..MaxPrice
MaxTime == 1         \* the clock ranges over 0..MaxTime
MaxInstruments == 3  \* instruments held in the store
MaxQuotes == 6       \* entries in a provider's search response

----------------------------------------------------------------------------
(* JavaScript values *)

NullV == [null |-> TRUE]
NaNV == [nan |-> TRUE]
Str(s) == [str |-> s]
Date(t) == [time |-> t]

RECURSIVE Gcd(_, _)
Gcd(a, b) == IF b = 0 THEN a ELSE Gcd(b, a % b)

Abs(x) == IF x < 0 THEN 0 - x ELSE x

\* the number a/b, b # 0, in lowest terms with a positive denominator
Ratio(a, b) ==
    LET g == Gcd(Abs(a), Abs(b))
        s == IF b < 0 THEN 0 - 1 ELSE 1
    IN  [n |-> (s * a) \div g, d |-> (s * b) \div g]

Num(k) == [n |-> k, d |-> 1]
IsNum(v) == DOMAIN v = {"n", "d"}

\* a - b, (a / b) * 100 on numbers
Minus(a, b) == Ratio(a.n * b.d - b.n * a.d, a.d * b.d)
PercentOf(a, b) == Ratio(a.n * b.d * 100, a.d * b.n)

\* a ?? b
Coalesce(a, b) == IF a # NullV THEN a ELSE b

\* a || b on a JSON string field: null, undefined and "" are falsy
OrElse(a, b) == IF a = NullV \/ a = Str("") THEN b ELSE a.str

Digit(k) == SubSeq("0123456789", k + 1, k + 1)

RECURSIVE Decimal(_)
Decimal(k) == IF k < 10 THEN Digit(k) ELSE Decimal(k \div 10) \o Digit(k % 10)

\* Number.prototype.toString on the whole numbers and NaN the providers yield
NumToString(v) ==
    IF v = NaNV THEN "NaN"
    ELSE IF v.n < 0 THEN "-" \o Decimal(0 - v.n) ELSE Decimal(v.n)

IsDigit(c) == \E k \in 0..9 : Digit(k) = c

DigitValue(c) == CHOOSE k \in 0..9 : Digit(k) = c

\* how many decimal digits the string starts with
RECURSIVE LeadingDigits(_)
LeadingDigits(s) ==
    IF Len(s) = 0 \/ ~IsDigit(SubSeq(s, 1, 1)) THEN 0
    ELSE 1 + LeadingDigits(SubSeq(s, 2, Len(s)))

\* the whole number a string of decimal digits denotes
RECURSIVE DigitsValue(_)
DigitsValue(s) ==
    IF Len(s) = 0 THEN 0
    ELSE 10 * DigitsValue(SubSeq(s, 1, Len(s) - 1)) + DigitValue(SubSeq(s, Len(s), Len(s)))

\* parseFloat on the strings the providers and the store hold: the longest
\* numeric prefix (an optional sign and decimal digits), NaN when there is none
ParseFloat(s) ==
    LET negative == Len(s) > 0 /\ SubSeq(s, 1, 1) = "-"
        rest == IF negative THEN SubSeq(s, 2, Len(s)) ELSE s
        k == LeadingDigits(rest)
        value == DigitsValue(SubSeq(rest, 1, k))
    IN  IF k = 0 THEN NaNV
        ELSE Num(IF negative THEN 0 - value ELSE value)

\* String.prototype.toUpperCase on the tickers of the model
ToUpperCase(s) ==
    CASE s = "aapl" -> "AAPL"
      [] s = "Msft" -> "MSFT"
      [] OTHER -> s

Tickers == {"aapl", "Msft", "BTC-USD"}

Times == 0..MaxTime
JsonPrices == {NullV} \cup {Num(p) : p \in 0..MaxPrice}
JsonCurrencies == {NullV, Str("EUR")}

----------------------------------------------------------------------------
(* Provider responses: a fetch that rejects (or a body that is not JSON),  *)
(* a non-2xx answer, or a 2xx answer with a JSON body.                     *)

Throw == [status |-> "throw"]
HttpError == [status |-> "error"]
Ok(b) == [status |-> "ok", body |-> b]

NoMeta == [meta |-> FALSE]

ChartPayloads ==
    {NoMeta} \cup
    {[meta |-> TRUE, regularMarketPrice |-> p, previousClose |-> c, currency |-> cur] :
        p \in JsonPrices, c \in JsonPrices, cur \in JsonCurrencies}

ChartResponses == {Throw, HttpError} \cup {Ok(b) : b \in ChartPayloads}

NoResult == [result |-> FALSE]

QuotePayloads ==
    {NoResult} \cup
    {[result |-> TRUE, regularMarketPrice |-> p, postMarketPrice |-> post,
      preMarketPrice |-> pre, regularMarketPreviousClose |-> rc,
      previousClose |-> c, currency |-> cur] :
        p \in JsonPrices, post \in {NullV, Num(1)}, pre \in {NullV, Num(MaxPrice)},
        rc \in JsonPrices, c \in {NullV, Num(1)}, cur \in JsonCurrencies}

QuoteResponses == {Throw, HttpError} \cup {Ok(b) : b \in QuotePayloads}

NoGlobalQuote == [quote |-> FALSE]

AlphaPayloads ==
    {NoGlobalQuote} \cup
    {[quote |-> TRUE, price |-> p, change |-> ch, changePercent |-> pct] :
        p \in {NullV, Str(""), Str("abc")} \cup {Str(Decimal(k)) : k \in 0..MaxPrice},
        ch \in {NullV, Str("1")}, pct \in {NullV, Str("1%"), Str("n/a")}}

AlphaResponses == {Throw, HttpError} \cup {Ok(b) : b \in AlphaPayloads}

----------------------------------------------------------------------------
(* FinancialService.getYahooPrice and getAlphaVantagePrice: the quote each *)
(* answer is normalised to.                                                *)

MarketData(symbol, f, t) ==
    [symbol |-> symbol, price |-> f.price, change |-> f.change,
     changePercent |-> f.changePercent, currency |-> f.currency, lastUpdate |-> Date(t)]

\* mutant: the percentage is taken of the current price
ChartFieldsPercentOfPrice(body) ==
    IF ~body.meta THEN NullV
    ELSE
        LET currentPrice == Coalesce(body.regularMarketPrice, body.previousClose)
            previousClose == Coalesce(body.previousClose, currentPrice)
            change == Minus(currentPrice, previousClose)
        IN  IF currentPrice # NullV /\ previousClose # NullV
            THEN [price |-> currentPrice,
                  change |-> change,
                  changePercent |-> IF currentPrice # Num(0)
                                    THEN PercentOf(change, currentPrice)
                                    ELSE Num(0),
                  currency |-> OrElse(body.currency, "USD")]
            ELSE NullV

\* chart API: price, change, changePercent and currency, or null
ChartFields(body) ==
    IF ~body.meta THEN NullV
    ELSE
        LET currentPrice == Coalesce(body.regularMarketPrice, body.previousClose)
            previousClose == Coalesce(body.previousClose, currentPrice)
            change == Minus(currentPrice, previousClose)
        IN  IF currentPrice # NullV /\ previousClose # NullV
            THEN [price |-> currentPrice,
                  change |-> change,
                  changePercent |-> IF previousClose # Num(0)
                                    THEN PercentOf(change, previousClose)
                                    ELSE Num(0),
                  currency |-> OrElse(body.currency, "USD")]
            ELSE NullV

\* quote API: price, change, changePercent and currency, or null
QuoteFields(body) ==
    IF ~body.result THEN NullV
    ELSE
        LET currentPrice == Coalesce(body.regularMarketPrice,
                                Coalesce(body.postMarketPrice, body.preMarketPrice))
            previousClose == Coalesce(body.regularMarketPreviousClose,
                                Coalesce(body.previousClose, currentPrice))
            change == IF previousClose # NullV
                      THEN Minus(currentPrice, previousClose)
                      ELSE Num(0)
        IN  IF currentPrice # NullV
            THEN [price |-> currentPrice,
                  change |-> change,
                  changePercent |-> IF previousClose # NullV /\ previousClose # Num(0)
                                    THEN PercentOf(change, previousClose)
                                    ELSE Num(0),
                  currency |-> OrElse(body.currency, "USD")]
            ELSE NullV

\* String.prototype.replace(ch, "") : the first occurrence of ch removed
RemoveFirst(s, ch) ==
    LET hits == {i \in 1..Len(s) : SubSeq(s, i, i) = ch}
    IN  IF hits = {} THEN s
        ELSE LET i == CHOOSE j \in hits : \A k \in hits : j <= k
             IN  SubSeq(s, 1, i - 1) \o SubSeq(s, i + 1, Len(s))

\* isNaN(parseFloat(raw)) ? 0 : parseFloat(raw)
ParseOrZero(s) == IF ParseFloat(s) = NaNV THEN Num(0) ELSE ParseFloat(s)

Error(msg) == [message |-> msg]

\* getAlphaVantagePrice: [ok |-> TRUE, value |-> quote] when it returns,
\* [ok |-> FALSE, error |-> e] when it throws e
AlphaVantagePrice(ticker, resp, t) ==
    IF resp.status = "throw" THEN [ok |-> FALSE, error |-> Error("fetch failed")]
    ELSE IF resp.status # "ok"
    THEN [ok |-> FALSE, error |-> Error("Alpha Vantage price fetch failed")]
    ELSE IF ~resp.body.quote \/ resp.body.price = NullV \/ resp.body.price = Str("")
    THEN [ok |-> FALSE, error |-> Error("No price data available")]
    ELSE
        LET rawChange == Coalesce(resp.body.change, Str("0")).str
            rawChangePct == RemoveFirst(Coalesce(resp.body.changePercent, Str("0")).str, "%")
        IN  [ok |-> TRUE,
             value |-> [symbol |-> ticker,
                        price |-> ParseFloat(resp.body.price.str),
                        change |-> ParseOrZero(rawChange),
                        changePercent |-> ParseOrZero(rawChangePct),
                        currency |-> "USD",
                        lastUpdate |-> Date(t)]]

----------------------------------------------------------------------------
(* FinancialService.getCurrentPrice as a state machine.  A call record     *)
(* holds the request in flight (pc), the requests sent so far, what each   *)
(* provider yielded, and the settled outcome.                              *)

Idle ==
    [pc |-> "idle", ticker |-> "", sent |-> <<>>, yahooAnswered |-> FALSE,
     yahooData |-> NullV, alphaResult |-> NullV, outcome |-> NullV]

\* the call runs synchronously up to the chart fetch
StartCall(ticker) ==
    [Idle EXCEPT !.pc = "chart", !.ticker = ticker, !.sent = <<"chart">>]

Resolve(c, data) == [c EXCEPT !.pc = "fulfilled", !.outcome = data]

\* catch (error) { throw new Error(`Failed to get current price for ${ticker}`) }
Rethrow(ticker, error) == Error("Failed to get current price for " \o ticker)

\* mutant: the provider error is swallowed and null returned
ReturnNullOnError(c, error) == [c EXCEPT !.pc = "fulfilled", !.outcome = NullV]

Reject(c, error) ==
    [c EXCEPT !.pc = "rejected", !.outcome = Rethrow(c.ticker, error)]

\* mutant: the fallback request goes to the chart endpoint again
SendChartAgain(c) == [c EXCEPT !.pc = "chart", !.sent = Append(@, "chart")]

SendQuote(c) == [c EXCEPT !.pc = "quote", !.sent = Append(@, "quote")]
SendAlpha(c) == [c EXCEPT !.pc = "alpha", !.sent = Append(@, "alpha")]

\* mutant: Alpha Vantage is consulted whatever Yahoo returned
AfterYahooAlwaysFallsBack(c, yahooData) == SendAlpha(c)

\* getCurrentPrice once getYahooPrice has returned yahooData
AfterYahoo(c, yahooData) ==
    IF yahooData # NullV
    THEN Resolve(c, yahooData)
    ELSE SendAlpha(c)

\* history: what getYahooPrice returned
YahooReturned(c, data) == [c EXCEPT !.yahooAnswered = TRUE, !.yahooData = data]

\* history: what getAlphaVantagePrice returned or threw
AlphaReturned(c, r) == [c EXCEPT !.alphaResult = r]

\* getYahooPrice, the answer to the chart request
OnChartResponse(c, resp, t) ==
    IF resp.status = "throw" THEN AfterYahoo(YahooReturned(c, NullV), NullV)
    ELSE IF resp.status = "ok" /\ ChartFields(resp.body) # NullV
    THEN LET data == MarketData(ToUpperCase(c.ticker), ChartFields(resp.body), t)
         IN  AfterYahoo(YahooReturned(c, data), data)
    ELSE SendQuote(c)

\* getYahooPrice, the answer to the quote request
OnQuoteResponse(c, resp, t) ==
    IF resp.status = "ok" /\ QuoteFields(resp.body) # NullV
    THEN LET data == MarketData(ToUpperCase(c.ticker), QuoteFields(resp.body), t)
         IN  AfterYahoo(YahooReturned(c, data), data)
    ELSE AfterYahoo(YahooReturned(c, NullV), NullV)

\* getCurrentPrice, the answer to the Alpha Vantage request
OnAlphaResponse(c, resp, t) ==
    LET r == AlphaVantagePrice(c.ticker, resp, t)
    IN  IF r.ok
        THEN Resolve(AlphaReturned(c, r), r.value)
        ELSE Reject(AlphaReturned(c, r), r.error)

Settled(c) == c.pc \in {"fulfilled", "rejected"}

\* no search request yet
NoSearch ==
    [pc |-> "idle", query |-> "", sent |-> <<>>, yahoo |-> "none", yahooBody |-> NullV,
     yahooResults |-> <<>>, alpha |-> "none", alphaBody |-> NullV, response |-> NullV]

\* no instrument deleted yet
NoRemoval == [deleted |-> {}, response |-> NullV]

\* no second price refresh request yet
NoRival == [pc |-> "idle", instruments |-> <<>>, lookups |-> <<>>, updated |-> <<>>,
            idx |-> 0, response |-> NullV]

\* no analysis request yet
NoAnalysis == [pc |-> "idle", input |-> <<>>, portfolioData |-> <<>>, response |-> NullV]

\* no statistics request yet
NoStats == [pc |-> "idle", input |-> <<>>, response |-> NullV]

\* no normaliser applied yet
NoNorm == [fn |-> "none", body |-> NullV, out |-> NullV]

\* no price refresh request yet
NoRefresh ==
    [pc |-> "idle", instruments |-> <<>>, updated |-> <<>>, idx |-> 0, response |-> NullV]

----------------------------------------------------------------------------
(* MemStorage: the instruments held when the server starts serving *)

\* the i-th instrument created; amounts alternate so that getInstruments reorders
StoredInstrument(i, priced) ==
    [id |-> i,
     name |-> "Instrument",
     ticker |-> IF i % 3 = 1 THEN "aapl" ELSE IF i % 3 = 2 THEN "Msft" ELSE "BTC-USD",
     isin |-> NullV,
     type |-> IF i % 3 = 0 THEN "crypto" ELSE "azione",
     investedAmount |-> Str(Decimal(1 + (i % 2))),
     currentPrice |-> IF priced THEN Str("1") ELSE NullV,
     currency |-> "EUR",
     priceLastUpdated |-> IF priced THEN Date(0) ELSE NullV,
     createdAt |-> Date(0)]

\* stores of 0..MaxInstruments instruments, of which the first k have a price
Stores ==
    {[i \in 1..n |-> StoredInstrument(i, i <= k)] : n \in 0..MaxInstruments, k \in 0..1}

\* the state once the server is constructed
Init ==
    /\ now = 0
    /\ call = Idle
    /\ search = NoSearch
    /\ store = <<>>
    /\ refresh = NoRefresh
    /\ lookups = <<>>
    /\ inbox = NullV
    /\ cards = NullV
    /\ stats = NoStats
    /\ posts = <<>>
    /\ removal = NoRemoval
    /\ rival = NoRival
    /\ analysis = NoAnalysis
    /\ norm = NoNorm

\* the same with instruments loaded into the store
InitRefresh ==
    /\ now = 0
    /\ call = Idle
    /\ search = NoSearch
    /\ store \in Stores
    /\ refresh = NoRefresh
    /\ lookups = <<>>
    /\ inbox = NullV
    /\ cards = NullV
    /\ stats = NoStats
    /\ posts = <<>>
    /\ removal = NoRemoval
    /\ rival = NoRival
    /\ analysis = NoAnalysis
    /\ norm = NoNorm

----------------------------------------------------------------------------
(* A single getCurrentPrice call *)

Tick ==
    /\ now < MaxTime
    /\ now' = now + 1
    /\ UNCHANGED <<call, search, store, refresh, lookups, inbox, cards, stats, norm,
                   posts, removal, rival, analysis>>

GetCurrentPrice ==
    /\ call.pc = "idle"
    /\ \E ticker \in Tickers : call' = StartCall(ticker)
    /\ UNCHANGED <<now, search, store, refresh, lookups, inbox, cards, stats, norm,
                   posts, removal, rival, analysis>>

ChartResponse ==
    /\ call.pc = "chart"
    /\ \E resp \in ChartResponses : call' = OnChartResponse(call, resp, now)
    /\ UNCHANGED <<now, search, store, refresh, lookups, inbox, cards, stats, norm,
                   posts, removal, rival, analysis>>

QuoteResponse ==
    /\ call.pc = "quote"
    /\ \E resp \in QuoteResponses : call' = OnQuoteResponse(call, resp, now)
    /\ UNCHANGED <<now, search, store, refresh, lookups, inbox, cards, stats, norm,
                   posts, removal, rival, analysis>>

AlphaResponse ==
    /\ call.pc = "alpha"
    /\ \E resp \in AlphaResponses : call' = OnAlphaResponse(call, resp, now)
    /\ UNCHANGED <<now, search, store, refresh, lookups, inbox, cards, stats, norm,
                   posts, removal, rival, analysis>>

NextQuote == Tick \/ GetCurrentPrice \/ ChartResponse \/ QuoteResponse \/ AlphaResponse

SpecQuote == Init /\ [][NextQuote]_vars

-----------------------------------------------------------------------------
(* The same call with the provider and the event loop told apart: whether  *)
(* a provider answers is the provider's choice, while resuming the awaited  *)
(* fetch once its response is there is what the event loop always does.    *)
(* Every fetch of the service is issued without an AbortSignal, so nothing *)
(* but the response itself ends the await.                                 *)

\* the responses the request in flight can get
AwaitedResponses(c) ==
    CASE c.pc = "chart" -> ChartResponses
      [] c.pc = "quote" -> QuoteResponses
      [] c.pc = "alpha" -> AlphaResponses
      [] OTHER -> {}

\* the provider answers the request in flight
ProviderAnswers ==
    /\ inbox = NullV
    /\ \E resp \in AwaitedResponses(call) : inbox' = resp
    /\ UNCHANGED <<now, call, search, store, refresh, lookups, cards, stats, norm,
                   posts, removal, rival, analysis>>

\* the awaited fetch has settled: the call runs on to its next await or its end
ResumeCall ==
    /\ inbox # NullV
    /\ call' = CASE call.pc = "chart" -> OnChartResponse(call, inbox, now)
                 [] call.pc = "quote" -> OnQuoteResponse(call, inbox, now)
                 [] call.pc = "alpha" -> OnAlphaResponse(call, inbox, now)
    /\ inbox' = NullV
    /\ UNCHANGED <<now, search, store, refresh, lookups, cards, stats, norm,
                   posts, removal, rival, analysis>>

NextAwait == Tick \/ GetCurrentPrice \/ ProviderAnswers \/ ResumeCall

\* the event loop resumes a settled await; providers are under no obligation
SpecAwait == Init /\ [][NextAwait]_vars /\ WF_vars(ResumeCall)

----------------------------------------------------------------------------
(* FinancialService.searchInstrument and POST /api/instruments/search *)

SearchLimit == 5

\* JavaScript truthiness of a JSON value
Truthy(v) == v \notin {NullV, NaNV, Str(""), Num(0)}

YahooEntries ==
    {[symbol |-> Str("AAPL"), shortname |-> Str("Apple Inc."), quoteType |-> Str("EQUITY"),
      isin |-> NullV, currency |-> Str("USD"), regularMarketPrice |-> Num(1)],
     [symbol |-> Str("SPY"), shortname |-> Str("SPDR S&P 500"), quoteType |-> Str("etf"),
      isin |-> NullV, currency |-> NullV, regularMarketPrice |-> NullV],
     [symbol |-> Str("AAPL.MX"), shortname |-> NullV, quoteType |-> NullV,
      isin |-> NullV, currency |-> Str("MXN"), regularMarketPrice |-> Num(1)]}

AlphaEntries ==
    {[symbol |-> Str("AAPL"), name |-> Str("Apple Inc"), currency |-> Str("USD")],
     [symbol |-> Str("APLE"), name |-> Str("Apple Hospitality"), currency |-> NullV]}

SeqsUpTo(S, n) == UNION {[1..k -> S] : k \in 0..n}

YahooSearchResponses ==
    {Throw, HttpError} \cup {Ok(qs) : qs \in SeqsUpTo(YahooEntries, MaxQuotes)}

AlphaSearchResponses ==
    {Throw, HttpError} \cup {Ok(ms) : ms \in SeqsUpTo(AlphaEntries, MaxQuotes)}

Queries == {"", "apple"}

TypeMapKeys == {"EQUITY", "ETF", "MUTUALFUND", "CRYPTOCURRENCY", "BOND", "INDEX"}

TypeMap(key) ==
    CASE key = "EQUITY" -> "azione"
      [] key = "ETF" -> "ETF"
      [] key = "MUTUALFUND" -> "ETF"
      [] key = "CRYPTOCURRENCY" -> "crypto"
      [] key = "BOND" -> "obbligazione"
      [] key = "INDEX" -> "ETF"

LowerLetters == "abcdefghijklmnopqrstuvwxyz"
UpperLetters == "ABCDEFGHIJKLMNOPQRSTUVWXYZ"

\* a character with a lower-case letter turned into its capital
UpperChar(c) ==
    IF \E i \in 1..26 : SubSeq(LowerLetters, i, i) = c
    THEN LET i == CHOOSE j \in 1..26 : SubSeq(LowerLetters, j, j) = c
         IN  SubSeq(UpperLetters, i, i)
    ELSE c

\* String.prototype.toUpperCase on the provider type strings
RECURSIVE TypeToUpperCase(_)
TypeToUpperCase(s) ==
    IF Len(s) = 0 THEN s
    ELSE UpperChar(SubSeq(s, 1, 1)) \o TypeToUpperCase(SubSeq(s, 2, Len(s)))

\* mutant: the type is looked up as the provider spelt it
mapYahooTypeCaseSensitive(quoteType) ==
    IF quoteType # NullV /\ quoteType.str \in TypeMapKeys
    THEN TypeMap(quoteType.str)
    ELSE "azione"

mapYahooType(quoteType) ==
    IF quoteType # NullV /\ TypeToUpperCase(quoteType.str) \in TypeMapKeys
    THEN TypeMap(TypeToUpperCase(quoteType.str))
    ELSE "azione"

\* the JSON body of a 2xx answer, null when there is none
BodyOf(resp) == IF resp.status = "ok" THEN resp.body ELSE NullV

\* mutant: nothing is cut off
SliceKeepsAll(seq, n) == seq

\* Array.prototype.slice(0, n)
Slice(seq, n) == SubSeq(seq, 1, IF Len(seq) < n THEN Len(seq) ELSE n)

YahooAccepts(quote) == Truthy(quote.symbol) /\ Truthy(quote.shortname)

YahooInfo(quote) ==
    [name |-> quote.shortname.str,
     ticker |-> quote.symbol.str,
     isin |-> IF Truthy(quote.isin) THEN quote.isin ELSE NullV,
     type |-> mapYahooType(quote.quoteType),
     currency |-> OrElse(quote.currency, "USD"),
     price |-> IF Truthy(quote.regularMarketPrice) THEN quote.regularMarketPrice ELSE Num(0)]

\* searchYahoo: every failure is caught and answered with the empty list
searchYahoo(resp) ==
    IF resp.status # "ok" THEN <<>>
    ELSE LET kept == Slice(SelectSeq(resp.body, YahooAccepts), SearchLimit)
         IN  [i \in 1..Len(kept) |-> YahooInfo(kept[i])]

AlphaInfo(match) ==
    [name |-> match.name.str,
     ticker |-> match.symbol.str,
     isin |-> NullV,
     type |-> "azione",
     currency |-> OrElse(match.currency, "USD"),
     price |-> Num(0)]

\* searchAlphaVantage: every failure is caught and answered with the empty list
searchAlphaVantage(resp) ==
    IF resp.status # "ok" THEN <<>>
    ELSE LET kept == Slice(resp.body, SearchLimit)
         IN  [i \in 1..Len(kept) |-> AlphaInfo(kept[i])]

\* searchInstrument as a function of the two providers' answers
searchInstrument(yahooResp, alphaResp) ==
    IF Len(searchYahoo(yahooResp)) > 0
    THEN searchYahoo(yahooResp)
    ELSE searchAlphaVantage(alphaResp)

\* res.json(results) / res.status(400).json({error})
SearchOk(results) == [status |-> 200, body |-> results]
SearchError == [status |-> 400, body |-> <<[code |-> "SEARCH_ERROR"]>>]

Respond(s, response) == [s EXCEPT !.pc = "responded", !.response = response]

SendAlphaSearch(s) == [s EXCEPT !.pc = "alpha", !.sent = Append(@, "alpha")]

\* mutant: the fallback is taken whatever Yahoo returned
AfterSearchYahooAlwaysFallsBack(s, yahooResults) == SendAlphaSearch(s)

\* searchInstrument once searchYahoo has returned
AfterSearchYahoo(s, yahooResults) ==
    IF Len(yahooResults) > 0
    THEN Respond(s, SearchOk(yahooResults))
    ELSE SendAlphaSearch(s)

\* instrumentSearchSchema.parse, then searchInstrument up to the first fetch
SearchRequest ==
    /\ search.pc = "idle"
    /\ \E query \in Queries :
          search' = IF Len(query) < 1
                    THEN Respond([search EXCEPT !.query = query], SearchError)
                    ELSE [search EXCEPT !.pc = "yahoo", !.query = query,
                                        !.sent = <<"yahoo">>]
    /\ UNCHANGED <<now, call, store, refresh, lookups, inbox, cards, stats, norm,
                   posts, removal, rival, analysis>>

YahooSearchResponse ==
    /\ search.pc = "yahoo"
    /\ \E resp \in YahooSearchResponses :
          search' = AfterSearchYahoo(
                        [search EXCEPT !.yahoo = resp.status,
                                       !.yahooBody = BodyOf(resp),
                                       !.yahooResults = searchYahoo(resp)],
                        searchYahoo(resp))
    /\ UNCHANGED <<now, call, store, refresh, lookups, inbox, cards, stats, norm,
                   posts, removal, rival, analysis>>

AlphaSearchResponse ==
    /\ search.pc = "alpha"
    /\ \E resp \in AlphaSearchResponses :
          search' = Respond([search EXCEPT !.alpha = resp.status,
                                           !.alphaBody = BodyOf(resp)],
                            SearchOk(searchAlphaVantage(resp)))
    /\ UNCHANGED <<now, call, store, refresh, lookups, inbox, cards, stats, norm,
                   posts, removal, rival, analysis>>

NextSearch == SearchRequest \/ YahooSearchResponse \/ AlphaSearchResponse

SpecSearch == Init /\ [][NextSearch]_vars

----------------------------------------------------------------------------
(* MemStorage.getInstruments and updateInstrument *)

Invested(inst) == ParseFloat(inst.investedAmount.str)

\* a - b > 0 on whole numbers
Greater(a, b) == a # NaNV /\ b # NaNV /\ a.n * b.d > b.n * a.d

\* x placed in a list sorted by investedAmount, largest first, before its equals
RECURSIVE InsertByInvested(_, _)
InsertByInvested(x, sorted) ==
    IF sorted = <<>> THEN <<x>>
    ELSE IF Greater(Invested(Head(sorted)), Invested(x))
    THEN <<Head(sorted)>> \o InsertByInvested(x, Tail(sorted))
    ELSE <<x>> \o sorted

\* Array.prototype.sort((a, b) => parseFloat(b.investedAmount) - parseFloat(a.investedAmount))
RECURSIVE SortByInvested(_)
SortByInvested(seq) ==
    IF seq = <<>> THEN <<>>
    ELSE InsertByInvested(Head(seq), SortByInvested(Tail(seq)))

\* the ids of a store in insertion order
RECURSIVE IdsInOrder(_)
IdsInOrder(ids) ==
    IF ids = {} THEN <<>>
    ELSE LET first == CHOOSE i \in ids : \A j \in ids : i <= j
         IN  <<first>> \o IdsInOrder(ids \ {first})

getInstruments(st) ==
    LET ids == IdsInOrder(DOMAIN st)
    IN  SortByInvested([i \in 1..Len(ids) |-> st[ids[i]]])

\* { ...existing, ...updates } for updates {currentPrice, priceLastUpdated}
updateInstrument(st, id, updates) ==
    [st EXCEPT ![id] = [@ EXCEPT !.currentPrice = updates.currentPrice,
                                 !.priceLastUpdated = updates.priceLastUpdated]]

----------------------------------------------------------------------------
(* FinancialService.updatePrices: one async closure per instrument, joined  *)
(* by Promise.allSettled.                                                   *)

\* a closure awaiting getCurrentPrice
Pending(c) == [state |-> "pending", call |-> c, ok |-> FALSE, data |-> NullV, value |-> NullV]

\* mutant: a failed lookup clears the instrument's price fields
ContinuationClearsOnFailure(instrument, c) ==
    IF c.pc = "fulfilled"
    THEN [state |-> "fulfilled", call |-> [Idle EXCEPT !.pc = c.pc], ok |-> TRUE,
          data |-> [price |-> c.outcome.price, lastUpdate |-> c.outcome.lastUpdate],
          value |-> [instrument EXCEPT !.currentPrice = Str(NumToString(c.outcome.price)),
                                       !.priceLastUpdated = c.outcome.lastUpdate]]
    ELSE [state |-> "fulfilled", call |-> [Idle EXCEPT !.pc = c.pc], ok |-> FALSE,
          data |-> NullV,
          value |-> [instrument EXCEPT !.currentPrice = NullV, !.priceLastUpdated = NullV]]

\* mutant: the quote's symbol is written over the instrument's ticker too
ContinuationTakesSymbol(instrument, c) ==
    IF c.pc = "fulfilled"
    THEN [state |-> "fulfilled", call |-> [Idle EXCEPT !.pc = c.pc], ok |-> TRUE,
          data |-> [price |-> c.outcome.price, lastUpdate |-> c.outcome.lastUpdate],
          value |-> [instrument EXCEPT !.ticker = c.outcome.symbol,
                                       !.currentPrice = Str(NumToString(c.outcome.price)),
                                       !.priceLastUpdated = c.outcome.lastUpdate]]
    ELSE [state |-> "fulfilled", call |-> [Idle EXCEPT !.pc = c.pc], ok |-> FALSE,
          data |-> NullV, value |-> instrument]

\* the closure once its getCurrentPrice call has settled: the instrument with
\* the quote's price and time, or the instrument itself; the call and its quote
\* are dropped, data keeps what the quote said
Continuation(instrument, c) ==
    IF c.pc = "fulfilled"
    THEN [state |-> "fulfilled", call |-> [Idle EXCEPT !.pc = c.pc], ok |-> TRUE,
          data |-> [price |-> c.outcome.price, lastUpdate |-> c.outcome.lastUpdate],
          value |-> [instrument EXCEPT !.currentPrice = Str(NumToString(c.outcome.price)),
                                       !.priceLastUpdated = c.outcome.lastUpdate]]
    ELSE [state |-> "fulfilled", call |-> [Idle EXCEPT !.pc = c.pc], ok |-> FALSE,
          data |-> NullV, value |-> instrument]

\* a closure after a step of its getCurrentPrice call
Step(instrument, c) == IF Settled(c) THEN Continuation(instrument, c) ELSE Pending(c)

\* instruments.map(async ...) : every closure runs up to its first fetch
StartLookups(instruments) ==
    [i \in 1..Len(instruments) |-> Pending(StartCall(instruments[i].ticker))]

\* mutant: a fail-fast join, ready as soon as one lookup has failed
AnyFailedOrAllSettled(ls) ==
    \/ \A i \in 1..Len(ls) : ls[i].state # "pending"
    \/ \E i \in 1..Len(ls) : ls[i].state # "pending" /\ ~ls[i].ok

\* Promise.allSettled: every closure has settled
AllSettled(ls) == \A i \in 1..Len(ls) : ls[i].state # "pending"

\* mutant: the failed lookups are left out of the result
FulfilledLookupsOnly(instruments, ls) ==
    LET kept == SelectSeq(ls, LAMBDA l : l.ok)
    IN  [i \in 1..Len(kept) |-> kept[i].value]

\* updates.map((result, index) => fulfilled ? result.value : instruments[index])
UpdatePricesResult(instruments, ls) ==
    [i \in 1..Len(instruments) |->
        IF ls[i].state = "fulfilled" THEN ls[i].value ELSE instruments[i]]

----------------------------------------------------------------------------
(* POST /api/instruments/update-prices *)

RefreshOk(n) == [status |-> 200, message |-> "Prices updated successfully", count |-> n]
RefreshError == [status |-> 500, message |-> "Failed to update prices", count |-> 0]

\* the answers drawn for the lookups of a refresh: one of each kind the code
\* tells apart (rejected fetch, non-2xx, no usable data, each price)
LookupChartResponses ==
    {r \in ChartResponses :
        r.status = "ok" /\ r.body.meta =>
            r.body.previousClose = NullV /\ r.body.currency = NullV}

LookupQuoteResponses ==
    {r \in QuoteResponses :
        r.status = "ok" /\ r.body.result =>
            /\ r.body.postMarketPrice = NullV /\ r.body.preMarketPrice = NullV
            /\ r.body.regularMarketPreviousClose = NullV
            /\ r.body.previousClose = NullV /\ r.body.currency = NullV}

LookupAlphaResponses ==
    {r \in AlphaResponses :
        r.status = "ok" /\ r.body.quote =>
            r.body.change = NullV /\ r.body.changePercent = NullV}

\* storage.getInstruments(), then updatePrices up to its await
UpdatePricesRequest ==
    /\ refresh.pc = "idle"
    /\ refresh' = [refresh EXCEPT !.pc = "lookups", !.instruments = getInstruments(store)]
    /\ lookups' = StartLookups(getInstruments(store))
    /\ UNCHANGED <<now, call, search, store, inbox, cards, stats, norm, posts, removal,
                   rival, analysis>>

LookupChartResponse(i) ==
    /\ lookups[i].state = "pending" /\ lookups[i].call.pc = "chart"
    /\ \E resp \in LookupChartResponses :
          lookups' = [lookups EXCEPT ![i] =
              Step(refresh.instruments[i], OnChartResponse(lookups[i].call, resp, now))]
    /\ UNCHANGED <<now, call, search, store, refresh, inbox, cards, stats, norm,
                   posts, removal, rival, analysis>>

LookupQuoteResponse(i) ==
    /\ lookups[i].state = "pending" /\ lookups[i].call.pc = "quote"
    /\ \E resp \in LookupQuoteResponses :
          lookups' = [lookups EXCEPT ![i] =
              Step(refresh.instruments[i], OnQuoteResponse(lookups[i].call, resp, now))]
    /\ UNCHANGED <<now, call, search, store, refresh, inbox, cards, stats, norm,
                   posts, removal, rival, analysis>>

LookupAlphaResponse(i) ==
    /\ lookups[i].state = "pending" /\ lookups[i].call.pc = "alpha"
    /\ \E resp \in LookupAlphaResponses :
          lookups' = [lookups EXCEPT ![i] =
              Step(refresh.instruments[i], OnAlphaResponse(lookups[i].call, resp, now))]
    /\ UNCHANGED <<now, call, search, store, refresh, inbox, cards, stats, norm,
                   posts, removal, rival, analysis>>

\* updatePrices returns to the route
UpdatePricesReturn ==
    /\ refresh.pc = "lookups"
    /\ AllSettled(lookups)
    /\ refresh' = [refresh EXCEPT !.pc = "persist", !.idx = 1,
                       !.updated = UpdatePricesResult(refresh.instruments, lookups)]
    /\ UNCHANGED <<now, call, search, store, lookups, inbox, cards, stats, norm,
                   posts, removal, rival, analysis>>

\* one turn of the loop: await storage.updateInstrument(updated.id, {...})
PersistUpdated ==
    /\ refresh.pc = "persist"
    /\ refresh.idx <= Len(refresh.updated)
    /\ LET updated == refresh.updated[refresh.idx]
       IN  IF updated.id \in DOMAIN store
           THEN /\ store' = updateInstrument(store, updated.id,
                                [currentPrice |-> updated.currentPrice,
                                 priceLastUpdated |-> updated.priceLastUpdated])
                /\ refresh' = [refresh EXCEPT !.idx = @ + 1]
           ELSE /\ store' = store
                /\ refresh' = [refresh EXCEPT !.pc = "responded", !.response = RefreshError]
    /\ UNCHANGED <<now, call, search, lookups, inbox, cards, stats, norm,
                   posts, removal, rival, analysis>>

\* res.json({ message, count: updatedInstruments.length })
RefreshRespond ==
    /\ refresh.pc = "persist"
    /\ refresh.idx > Len(refresh.updated)
    /\ refresh' = [refresh EXCEPT !.pc = "responded",
                                  !.response = RefreshOk(Len(refresh.updated))]
    /\ UNCHANGED <<now, call, search, store, lookups, inbox, cards, stats, norm,
                   posts, removal, rival, analysis>>

NextRefresh ==
    \/ Tick
    \/ UpdatePricesRequest
    \/ \E i \in 1..Len(lookups) : LookupChartResponse(i)
    \/ \E i \in 1..Len(lookups) : LookupQuoteResponse(i)
    \/ \E i \in 1..Len(lookups) : LookupAlphaResponse(i)
    \/ UpdatePricesReturn
    \/ PersistUpdated
    \/ RefreshRespond

SpecRefresh == InitRefresh /\ [][NextRefresh]_vars

-----------------------------------------------------------------------------
(* JavaScript arithmetic on numbers, NaN and the two infinities (the sign  *)
(* of zero is not told apart)                                              *)

Inf(s) == [inf |-> s]
IsInf(v) == DOMAIN v = {"inf"}
IsFinite(v) == IsNum(v)

\* ToNumber on a number or undefined
ToNumber(v) == IF v = NullV THEN NaNV ELSE v

Sign(v) == IF IsInf(v) THEN v.inf ELSE IF v.n > 0 THEN 1 ELSE IF v.n < 0 THEN 0 - 1 ELSE 0

Negate(v) ==
    IF v = NaNV THEN NaNV ELSE IF IsInf(v) THEN Inf(0 - v.inf) ELSE Ratio(0 - v.n, v.d)

\* x + y
JsAdd(x, y) ==
    LET a == ToNumber(x)
        b == ToNumber(y)
    IN  IF a = NaNV \/ b = NaNV THEN NaNV
        ELSE IF IsInf(a) /\ IsInf(b) THEN (IF a = b THEN a ELSE NaNV)
        ELSE IF IsInf(a) THEN a
        ELSE IF IsInf(b) THEN b
        ELSE Ratio(a.n * b.d + b.n * a.d, a.d * b.d)

\* x - y
JsSub(x, y) == JsAdd(x, Negate(ToNumber(y)))

\* x * y
JsMul(x, y) ==
    LET a == ToNumber(x)
        b == ToNumber(y)
    IN  IF a = NaNV \/ b = NaNV THEN NaNV
        ELSE IF IsInf(a) \/ IsInf(b)
        THEN (IF Sign(a) * Sign(b) = 0 THEN NaNV ELSE Inf(Sign(a) * Sign(b)))
        ELSE Ratio(a.n * b.n, a.d * b.d)

\* x / y
JsDiv(x, y) ==
    LET a == ToNumber(x)
        b == ToNumber(y)
    IN  IF a = NaNV \/ b = NaNV THEN NaNV
        ELSE IF IsInf(a) THEN (IF IsInf(b) THEN NaNV ELSE Inf(IF Sign(b) < 0 THEN 0 - a.inf ELSE a.inf))
        ELSE IF IsInf(b) THEN Num(0)
        ELSE IF b.n = 0 THEN (IF a.n = 0 THEN NaNV ELSE Inf(Sign(a)))
        ELSE Ratio(a.n * b.d, a.d * b.n)

\* x > y
JsGt(x, y) ==
    LET diff == JsSub(x, y)
    IN  IF ToNumber(x) = NaNV \/ ToNumber(y) = NaNV THEN FALSE
        ELSE IF diff = NaNV THEN FALSE
        ELSE Sign(diff) > 0

\* x === y on numbers
JsEq(x, y) == x # NaNV /\ y # NaNV /\ x = y

\* x || y on numbers and undefined
Or(x, y) == IF Truthy(x) THEN x ELSE y

\* JSON.stringify of a number: NaN and the infinities become null
JsonNumber(v) == IF IsFinite(v) THEN v ELSE NullV

-----------------------------------------------------------------------------
(* The per-instrument figures of the portfolio: useInstrumentCards on the  *)
(* client and the reducer of GET /api/portfolio/stats compute them alike.  *)

MaxHoldings == 2

\* the amounts invested and the prices held
Amounts == {"0", "500", "1000"}
HeldPrices == {NullV, Str("NaN")} \cup {Str(Decimal(100 * p)) : p \in 0..MaxPrice}
HeldTypes == {"azione", "crypto"}

Holding(i, amount, price, type) ==
    [StoredInstrument(i, FALSE) EXCEPT !.investedAmount = Str(amount),
                                       !.currentPrice = price,
                                       !.type = type,
                                       !.priceLastUpdated = IF price = NullV THEN NullV ELSE Date(0)]

\* the stores of n instruments of any amount, price and type
PortfoliosOf(n) ==
    {[i \in 1..n |-> Holding(i, a[i], p[i], t[i])] :
        a \in [1..n -> Amounts], p \in [1..n -> HeldPrices], t \in [1..n -> HeldTypes]}

InitPortfolio ==
    /\ now = 0
    /\ call = Idle
    /\ search = NoSearch
    /\ \E n \in 0..MaxHoldings : store \in PortfoliosOf(n)
    /\ refresh = NoRefresh
    /\ lookups = <<>>
    /\ inbox = NullV
    /\ cards = NullV
    /\ stats = NoStats
    /\ posts = <<>>
    /\ removal = NoRemoval
    /\ rival = NoRival
    /\ analysis = NoAnalysis
    /\ norm = NoNorm

\* parseFloat(inst.investedAmount)
InvestedOf(inst) == ParseFloat(inst.investedAmount.str)

\* parseFloat(inst.currentPrice || "0")
CurrentPriceOf(inst) == ParseFloat(OrElse(inst.currentPrice, "0"))

\* mutant: the shares are a holding of one per unit invested, not derived
\* from the current price
SharesOfPerUnit(inst) == Or(InvestedOf(inst), Num(0))

\* invested / currentPrice || 0
SharesOf(inst) == Or(JsDiv(InvestedOf(inst), CurrentPriceOf(inst)), Num(0))

\* shares * currentPrice
CurrentValueOf(inst) == JsMul(SharesOf(inst), CurrentPriceOf(inst))

\* currentValue - invested
ProfitLossOf(inst) == JsSub(CurrentValueOf(inst), InvestedOf(inst))

\* invested > 0 ? (profitLoss / invested) * 100 : 0
PercentOfInvested(profitLoss, invested) ==
    IF JsGt(invested, Num(0)) THEN JsMul(JsDiv(profitLoss, invested), Num(100)) ELSE Num(0)

\* one element of cardData
InstrumentCard(inst) ==
    [id |-> inst.id,
     name |-> inst.name,
     ticker |-> inst.ticker,
     isin |-> inst.isin,
     type |-> inst.type,
     investedAmount |-> InvestedOf(inst),
     currentPrice |-> CurrentPriceOf(inst),
     currentValue |-> CurrentValueOf(inst),
     profitLoss |-> ProfitLossOf(inst),
     profitLossPercent |-> PercentOfInvested(ProfitLossOf(inst), InvestedOf(inst)),
     lastUpdate |-> inst.priceLastUpdated]

\* (instruments || []).map(inst => ...)
useInstrumentCards(instruments) ==
    [i \in 1..Len(instruments) |-> InstrumentCard(instruments[i])]

\* the accumulator the reduce starts from
EmptyStats ==
    [totalInvested |-> Num(0), totalCurrentValue |-> Num(0), totalProfitLoss |-> Num(0),
     byType |-> [t \in {} |-> Num(0)]]

\* acc.byType[type], undefined when the key is absent
ByTypeOf(acc, type) == IF type \in DOMAIN acc.byType THEN acc.byType[type] ELSE NullV

\* the reducer applied to one instrument
StatsStep(acc, inst) ==
    [totalInvested |-> JsAdd(acc.totalInvested, InvestedOf(inst)),
     totalCurrentValue |-> JsAdd(acc.totalCurrentValue, CurrentValueOf(inst)),
     totalProfitLoss |-> JsAdd(acc.totalProfitLoss, ProfitLossOf(inst)),
     byType |-> [t \in DOMAIN acc.byType \cup {inst.type} |->
                    IF t = inst.type
                    THEN JsAdd(Or(ByTypeOf(acc, t), Num(0)), CurrentValueOf(inst))
                    ELSE acc.byType[t]]]

\* instruments.reduce(step, acc)
RECURSIVE Reduce(_, _)
Reduce(acc, instruments) ==
    IF instruments = <<>> THEN acc
    ELSE Reduce(StatsStep(acc, Head(instruments)), Tail(instruments))

\* the body res.json sends: the totals, the percentage and the time, serialised
StatsBody(instruments, t) ==
    LET st == Reduce(EmptyStats, instruments)
        totalProfitLossPercent == PercentOfInvested(st.totalProfitLoss, st.totalInvested)
    IN  [status |-> 200,
         totalInvested |-> JsonNumber(st.totalInvested),
         totalCurrentValue |-> JsonNumber(st.totalCurrentValue),
         totalProfitLoss |-> JsonNumber(st.totalProfitLoss),
         byType |-> [ty \in DOMAIN st.byType |-> JsonNumber(st.byType[ty])],
         totalProfitLossPercent |-> JsonNumber(totalProfitLossPercent),
         lastUpdate |-> Date(t)]

\* the client renders the instruments it fetched
UseInstrumentCards ==
    /\ cards = NullV
    /\ cards' = [input |-> getInstruments(store),
                 data |-> useInstrumentCards(getInstruments(store))]
    /\ UNCHANGED <<now, call, search, store, refresh, lookups, inbox, stats, norm,
                   posts, removal, rival, analysis>>

\* GET /api/portfolio/stats
GetPortfolioStats ==
    /\ stats.pc = "idle"
    /\ stats' = [pc |-> "responded",
                 input |-> getInstruments(store),
                 response |-> StatsBody(getInstruments(store), now)]
    /\ UNCHANGED <<now, call, search, store, refresh, lookups, inbox, cards, norm,
                   posts, removal, rival, analysis>>

\* Number.prototype.toFixed(2): the nearest number of hundredths, the larger
\* of two equally near, written with two decimals
ToFixed2(v) ==
    IF v = NaNV THEN "NaN"
    ELSE IF IsInf(v) THEN (IF v.inf < 0 THEN "-Infinity" ELSE "Infinity")
    ELSE LET a == IF v.n < 0 THEN 0 - v.n ELSE v.n
             hundredths == (200 * a + v.d) \div (2 * v.d)
         IN  (IF v.n < 0 THEN "-" ELSE "") \o Decimal(hundredths \div 100) \o "."
                 \o Digit((hundredths \div 10) % 10) \o Digit(hundredths % 10)

\* instruments.reduce((sum, inst) => sum + shares * currentPrice, 0)
RECURSIVE TotalValue(_, _)
TotalValue(sum, instruments) ==
    IF instruments = <<>> THEN sum
    ELSE TotalValue(JsAdd(sum, CurrentValueOf(Head(instruments))), Tail(instruments))

\* AIService.preparePortfolioData
preparePortfolioData(instruments) ==
    LET totalValue == TotalValue(Num(0), instruments)
    IN  [i \in 1..Len(instruments) |->
            LET inst == instruments[i]
                percentage == IF JsGt(totalValue, Num(0))
                              THEN JsMul(JsDiv(CurrentValueOf(inst), totalValue), Num(100))
                              ELSE Num(0)
            IN  [id |-> inst.id,
                 name |-> inst.name,
                 ticker |-> inst.ticker,
                 type |-> inst.type,
                 investedAmount |-> InvestedOf(inst),
                 currentValue |-> CurrentValueOf(inst),
                 percentage |-> ToFixed2(percentage),
                 profitLoss |-> ProfitLossOf(inst),
                 profitLossPercent |-> PercentOfInvested(ProfitLossOf(inst), InvestedOf(inst))]]

EmptyPortfolio == [status |-> 400, code |-> "EMPTY_PORTFOLIO"]

\* POST /api/portfolio/analyze up to the first await of analyzePortfolio: an
\* empty portfolio is refused, otherwise the portfolio data is prepared
AnalyzePortfolio ==
    /\ analysis.pc = "idle"
    /\ analysis' =
          IF getInstruments(store) = <<>>
          THEN [analysis EXCEPT !.pc = "responded", !.response = EmptyPortfolio]
          ELSE [analysis EXCEPT !.pc = "context", !.input = getInstruments(store),
                    !.portfolioData = preparePortfolioData(getInstruments(store))]
    /\ UNCHANGED <<now, call, search, store, refresh, lookups, inbox, cards, stats, norm,
                   posts, removal, rival>>

NextPortfolio == UseInstrumentCards \/ GetPortfolioStats \/ AnalyzePortfolio

SpecPortfolio == InitPortfolio /\ [][NextPortfolio]_vars

\* the portfolios of one type: no figure of an instrument reads its type
InitFigures ==
    /\ InitPortfolio
    /\ \A id \in DOMAIN store : store[id].type = "azione"

SpecFigures == InitFigures /\ [][NextPortfolio]_vars

-----------------------------------------------------------------------------
(* The functions that derive a quote from a Yahoo payload, each applied to *)
(* a payload: getYahooPrice on its chart and quote paths, the older        *)
(* getYahooPrice, and getPriceUpdate.                                      *)

\* the older getYahooPrice: price, change, changePercent and currency, or null
\* (a result without meta makes the property read throw, which is caught)
OldChartFields(body) ==
    IF ~body.meta THEN NullV
    ELSE
        LET currentPrice == Or(body.regularMarketPrice, body.previousClose)
            previousClose == body.previousClose
            change == JsSub(currentPrice, previousClose)
            changePercent == JsMul(JsDiv(change, previousClose), Num(100))
        IN  [price |-> currentPrice,
             change |-> change,
             changePercent |-> changePercent,
             currency |-> OrElse(body.currency, "USD")]

\* getPriceUpdate: price, change and changePercent, or null
PriceUpdateFields(body) ==
    IF ~body.meta THEN NullV
    ELSE
        LET currentPrice == Or(body.regularMarketPrice, body.previousClose)
            previousClose == body.previousClose
            change == JsSub(currentPrice, previousClose)
            changePercent == JsMul(JsDiv(change, previousClose), Num(100))
        IN  [price |-> currentPrice,
             change |-> change,
             changePercent |-> changePercent]

\* regularMarketPrice 150 with previousClose 100, as a chart and as a quote payload
ExampleChart ==
    [meta |-> TRUE, regularMarketPrice |-> Num(150), previousClose |-> Num(100),
     currency |-> NullV]
ExampleQuote ==
    [result |-> TRUE, regularMarketPrice |-> Num(150), postMarketPrice |-> NullV,
     preMarketPrice |-> NullV, regularMarketPreviousClose |-> Num(100),
     previousClose |-> NullV, currency |-> NullV]

YahooPayloads == ChartPayloads \cup QuotePayloads \cup {ExampleChart, ExampleQuote}

IsChartPayload(body) == "meta" \in DOMAIN body

InitNormalise ==
    /\ now = 0
    /\ call = Idle
    /\ search = NoSearch
    /\ store = <<>>
    /\ refresh = NoRefresh
    /\ lookups = <<>>
    /\ inbox = NullV
    /\ cards = NullV
    /\ stats = NoStats
    /\ posts = <<>>
    /\ removal = NoRemoval
    /\ rival = NoRival
    /\ analysis = NoAnalysis
    /\ \E body \in YahooPayloads : norm = [fn |-> "none", body |-> body, out |-> NullV]

\* getYahooPrice, chart path
NormaliseChart ==
    /\ norm.fn = "none" /\ IsChartPayload(norm.body)
    /\ norm' = [norm EXCEPT !.fn = "chart", !.out = ChartFields(norm.body)]
    /\ UNCHANGED <<now, call, search, store, refresh, lookups, inbox, cards, stats,
                   posts, removal, rival, analysis>>

\* getYahooPrice, quote path
NormaliseQuote ==
    /\ norm.fn = "none" /\ ~IsChartPayload(norm.body)
    /\ norm' = [norm EXCEPT !.fn = "quote", !.out = QuoteFields(norm.body)]
    /\ UNCHANGED <<now, call, search, store, refresh, lookups, inbox, cards, stats,
                   posts, removal, rival, analysis>>

\* the older getYahooPrice
NormaliseOldChart ==
    /\ norm.fn = "none" /\ IsChartPayload(norm.body)
    /\ norm' = [norm EXCEPT !.fn = "oldChart", !.out = OldChartFields(norm.body)]
    /\ UNCHANGED <<now, call, search, store, refresh, lookups, inbox, cards, stats,
                   posts, removal, rival, analysis>>

\* getPriceUpdate
NormalisePriceUpdate ==
    /\ norm.fn = "none" /\ IsChartPayload(norm.body)
    /\ norm' = [norm EXCEPT !.fn = "priceUpdate", !.out = PriceUpdateFields(norm.body)]
    /\ UNCHANGED <<now, call, search, store, refresh, lookups, inbox, cards, stats,
                   posts, removal, rival, analysis>>

NextNormalise == NormaliseChart \/ NormaliseQuote \/ NormaliseOldChart \/ NormalisePriceUpdate

SpecNormalise == InitNormalise /\ [][NextNormalise]_vars

-----------------------------------------------------------------------------
(* mapYahooType applied to the type of a Yahoo search entry:              *)
(* this.mapYahooType(quote.quoteType || quote.typeDisp)                    *)

\* the type strings a provider sends: the mapped ones in three spellings,
\* unmapped ones, the empty string, and none
TypeStrings ==
    {NullV, Str("")} \cup
    {Str(t) : t \in {"EQUITY", "equity", "Equity", "ETF", "etf", "Etf",
                     "MUTUALFUND", "mutualfund", "MutualFund",
                     "CRYPTOCURRENCY", "cryptocurrency", "Cryptocurrency",
                     "BOND", "bond", "Bond", "INDEX", "index", "Index",
                     "OPTION", "future", "Currency", "azione"}}

InitTypeMap ==
    /\ now = 0
    /\ call = Idle
    /\ search = NoSearch
    /\ store = <<>>
    /\ refresh = NoRefresh
    /\ lookups = <<>>
    /\ inbox = NullV
    /\ cards = NullV
    /\ stats = NoStats
    /\ posts = <<>>
    /\ removal = NoRemoval
    /\ rival = NoRival
    /\ analysis = NoAnalysis
    /\ \E quoteType \in TypeStrings, typeDisp \in TypeStrings :
          norm = [fn |-> "none",
                  body |-> [quoteType |-> quoteType, typeDisp |-> typeDisp],
                  out |-> NullV]

\* quote.quoteType || quote.typeDisp
TypeArgument(quote) == IF Truthy(quote.quoteType) THEN quote.quoteType ELSE quote.typeDisp

MapType ==
    /\ norm.fn = "none"
    /\ norm' = [norm EXCEPT !.fn = "mapYahooType",
                            !.out = mapYahooType(TypeArgument(norm.body))]
    /\ UNCHANGED <<now, call, search, store, refresh, lookups, inbox, cards, stats,
                   posts, removal, rival, analysis>>

NextTypeMap == MapType

SpecTypeMap == InitTypeMap /\ [][NextTypeMap]_vars

-----------------------------------------------------------------------------
(* POST /api/instruments and DELETE /api/instruments/:id, any number of    *)
(* them in flight: a handler runs from one await to the next without       *)
(* interruption, and other handlers run while it awaits the price lookup.  *)

MaxPosts == 2

\* a character with a capital turned into its lower-case letter
LowerChar(c) ==
    IF \E i \in 1..26 : SubSeq(UpperLetters, i, i) = c
    THEN LET i == CHOOSE j \in 1..26 : SubSeq(UpperLetters, j, j) = c
         IN  SubSeq(LowerLetters, i, i)
    ELSE c

\* String.prototype.toLowerCase
RECURSIVE ToLowerCase(_)
ToLowerCase(s) ==
    IF Len(s) = 0 THEN s
    ELSE LowerChar(SubSeq(s, 1, 1)) \o ToLowerCase(SubSeq(s, 2, Len(s)))

\* a request body: the fields it carries, null for a field it lacks
Body(ticker, investedAmount, currentPrice) ==
    [name |-> Str("Instrument"), ticker |-> ticker, type |-> Str("azione"),
     investedAmount |-> investedAmount, currentPrice |-> currentPrice,
     priceLastUpdated |-> NullV]

\* the bodies sent: the same ticker in two spellings, an empty ticker with a
\* zero amount, a body that brings its own price, and one without an amount
PostBodies ==
    {Body(Str("aapl"), Str("1"), NullV),
     Body(Str("AAPL"), Str("1"), NullV),
     Body(Str(""), Str("0"), NullV),
     Body(Str("Msft"), Str("2"), Str("7")),
     Body(Str("aapl"), NullV, NullV)}

\* insertInstrumentSchema.parse succeeds: name, ticker, type and
\* investedAmount are strings (the other fields are optional)
SchemaAccepts(body) ==
    /\ body.name # NullV
    /\ body.ticker # NullV
    /\ body.type # NullV
    /\ body.investedAmount # NullV

\* MemStorage.getInstrumentByTicker: the ids whose ticker matches, case ignored
IdsByTicker(st, ticker) ==
    {id \in DOMAIN st : ToLowerCase(st[id].ticker) = ToLowerCase(ticker)}

\* randomUUID: an id no instrument has had
FreshId == MaxInstruments + Len(SelectSeq(posts, LAMBDA r : r.id # 0)) + 1

\* the Instrument createInstrument builds
NewInstrument(id, data, t) ==
    [id |-> id,
     name |-> data.name.str,
     ticker |-> data.ticker.str,
     isin |-> NullV,
     type |-> data.type.str,
     investedAmount |-> data.investedAmount,
     currentPrice |-> IF Truthy(data.currentPrice) THEN data.currentPrice ELSE NullV,
     currency |-> "EUR",
     priceLastUpdated |-> data.priceLastUpdated,
     createdAt |-> Date(t)]

\* this.instruments.set(id, instrument)
createInstrument(st, instrument) ==
    [id \in DOMAIN st \cup {instrument.id} |->
        IF id = instrument.id THEN instrument ELSE st[id]]

\* this.instruments.delete(id)
deleteInstrument(st, id) == [i \in DOMAIN st \ {id} |-> st[i]]

Created(instrument) == [status |-> 201, body |-> instrument]
ValidationError == [status |-> 400, body |-> [code |-> "VALIDATION_ERROR"]]
DuplicateInstrument == [status |-> 409, body |-> [code |-> "DUPLICATE_INSTRUMENT"]]

PostAnswered(body, response) ==
    [pc |-> "responded", body |-> body, call |-> Idle, quote |-> NullV, id |-> 0,
     response |-> response]

\* what the settled lookup returned: the quote's price and time, or nothing
QuoteOf(c) ==
    IF c.pc = "fulfilled"
    THEN [price |-> c.outcome.price, lastUpdate |-> c.outcome.lastUpdate]
    ELSE NullV

\* mutant: a failed lookup clears the price the request brought
WithPriceClearedOnFailure(data, c) ==
    IF c.pc = "fulfilled"
    THEN [data EXCEPT !.currentPrice = Str(NumToString(c.outcome.price)),
                      !.priceLastUpdated = c.outcome.lastUpdate]
    ELSE [data EXCEPT !.currentPrice = NullV]

\* instrumentData once the lookup has settled: the quote's price and time are
\* set on success, nothing is touched on failure
WithPrice(data, c) ==
    IF c.pc = "fulfilled"
    THEN [data EXCEPT !.currentPrice = Str(NumToString(c.outcome.price)),
                      !.priceLastUpdated = c.outcome.lastUpdate]
    ELSE data

\* the handler up to the price lookup: parse, duplicate check, first fetch
PostInstrument ==
    /\ Len(posts) < MaxPosts
    /\ \E body \in PostBodies :
          posts' = Append(posts,
              IF ~SchemaAccepts(body) THEN PostAnswered(body, ValidationError)
              ELSE IF IdsByTicker(store, body.ticker.str) # {}
              THEN PostAnswered(body, DuplicateInstrument)
              ELSE [pc |-> "lookup", body |-> body, call |-> StartCall(body.ticker.str),
                    quote |-> NullV, id |-> 0, response |-> NullV])
    /\ UNCHANGED <<now, call, search, store, refresh, lookups, inbox, cards, stats, norm,
                   removal, rival, analysis>>

\* request r after a step c of its lookup: once the lookup has settled the
\* instrument is created and sent back
PostProgress(r, c) ==
    IF Settled(c)
    THEN LET instrument == NewInstrument(FreshId, WithPrice(posts[r].body, c), now)
         IN  /\ store' = createInstrument(store, instrument)
             /\ posts' = [posts EXCEPT ![r] = [pc |-> "responded", body |-> @.body,
                                               call |-> [Idle EXCEPT !.pc = c.pc],
                                               quote |-> QuoteOf(c),
                                               id |-> instrument.id,
                                               response |-> Created(instrument)]]
    ELSE /\ store' = store
         /\ posts' = [posts EXCEPT ![r].call = c]

PostChartResponse(r) ==
    /\ posts[r].pc = "lookup" /\ posts[r].call.pc = "chart"
    /\ \E resp \in LookupChartResponses :
          PostProgress(r, OnChartResponse(posts[r].call, resp, now))
    /\ UNCHANGED <<now, call, search, refresh, lookups, inbox, cards, stats, norm,
                   removal, rival, analysis>>

PostQuoteResponse(r) ==
    /\ posts[r].pc = "lookup" /\ posts[r].call.pc = "quote"
    /\ \E resp \in LookupQuoteResponses :
          PostProgress(r, OnQuoteResponse(posts[r].call, resp, now))
    /\ UNCHANGED <<now, call, search, refresh, lookups, inbox, cards, stats, norm,
                   removal, rival, analysis>>

PostAlphaResponse(r) ==
    /\ posts[r].pc = "lookup" /\ posts[r].call.pc = "alpha"
    /\ \E resp \in LookupAlphaResponses :
          PostProgress(r, OnAlphaResponse(posts[r].call, resp, now))
    /\ UNCHANGED <<now, call, search, refresh, lookups, inbox, cards, stats, norm,
                   removal, rival, analysis>>

Deleted == [status |-> 200, message |-> "Instrument deleted successfully"]
NotFound == [status |-> 404, body |-> [code |-> "NOT_FOUND"]]

\* the ids a DELETE request may name
Ids == 1..(MaxInstruments + MaxPosts)

\* DELETE /api/instruments/:id
DeleteInstrument ==
    /\ \E id \in Ids :
          /\ store' = deleteInstrument(store, id)
          /\ removal' = IF id \in DOMAIN store
                        THEN [deleted |-> removal.deleted \cup {id}, response |-> Deleted]
                        ELSE [removal EXCEPT !.response = NotFound]
    /\ UNCHANGED <<now, call, search, refresh, lookups, inbox, cards, stats, norm, posts,
                   rival, analysis>>

NextCreate ==
    \/ Tick
    \/ PostInstrument
    \/ \E r \in 1..Len(posts) : PostChartResponse(r)
    \/ \E r \in 1..Len(posts) : PostQuoteResponse(r)
    \/ \E r \in 1..Len(posts) : PostAlphaResponse(r)
    \/ DeleteInstrument

SpecCreate == Init /\ [][NextCreate]_vars

\* the POST /api/instruments requests alone, served within one clock reading
NextPost ==
    \/ PostInstrument
    \/ \E r \in 1..Len(posts) : PostChartResponse(r)
    \/ \E r \in 1..Len(posts) : PostQuoteResponse(r)
    \/ \E r \in 1..Len(posts) : PostAlphaResponse(r)

SpecPost == Init /\ [][NextPost]_vars

-----------------------------------------------------------------------------
(* A price refresh with DELETE requests served while it awaits            *)

NextRefreshDelete == NextRefresh \/ DeleteInstrument

SpecRefreshDelete == InitRefresh /\ [][NextRefreshDelete]_vars

-----------------------------------------------------------------------------
(* Two POST /api/instruments/update-prices requests served concurrently:   *)
(* the page posts one every 30 seconds and one per click of the refresh    *)
(* button, and the server runs each up to its next await.                  *)

\* the most instruments held while two refreshes race
MaxRaced == 1

\* the second request: storage.getInstruments(), then updatePrices up to its await
RivalRequest ==
    /\ rival.pc = "idle"
    /\ rival' = [rival EXCEPT !.pc = "lookups", !.instruments = getInstruments(store),
                              !.lookups = StartLookups(getInstruments(store))]
    /\ UNCHANGED <<now, call, search, store, refresh, lookups, inbox, cards, stats, norm,
                   posts, removal, analysis>>

RivalChartResponse(i) ==
    /\ rival.lookups[i].state = "pending" /\ rival.lookups[i].call.pc = "chart"
    /\ \E resp \in LookupChartResponses :
          rival' = [rival EXCEPT !.lookups[i] =
              Step(rival.instruments[i], OnChartResponse(rival.lookups[i].call, resp, now))]
    /\ UNCHANGED <<now, call, search, store, refresh, lookups, inbox, cards, stats, norm,
                   posts, removal, analysis>>

RivalQuoteResponse(i) ==
    /\ rival.lookups[i].state = "pending" /\ rival.lookups[i].call.pc = "quote"
    /\ \E resp \in LookupQuoteResponses :
          rival' = [rival EXCEPT !.lookups[i] =
              Step(rival.instruments[i], OnQuoteResponse(rival.lookups[i].call, resp, now))]
    /\ UNCHANGED <<now, call, search, store, refresh, lookups, inbox, cards, stats, norm,
                   posts, removal, analysis>>

RivalAlphaResponse(i) ==
    /\ rival.lookups[i].state = "pending" /\ rival.lookups[i].call.pc = "alpha"
    /\ \E resp \in LookupAlphaResponses :
          rival' = [rival EXCEPT !.lookups[i] =
              Step(rival.instruments[i], OnAlphaResponse(rival.lookups[i].call, resp, now))]
    /\ UNCHANGED <<now, call, search, store, refresh, lookups, inbox, cards, stats, norm,
                   posts, removal, analysis>>

\* updatePrices returns to the second request's route
RivalReturn ==
    /\ rival.pc = "lookups"
    /\ AllSettled(rival.lookups)
    /\ rival' = [rival EXCEPT !.pc = "persist", !.idx = 1,
                     !.updated = UpdatePricesResult(rival.instruments, rival.lookups)]
    /\ UNCHANGED <<now, call, search, store, refresh, lookups, inbox, cards, stats, norm,
                   posts, removal, analysis>>

\* one turn of the second request's loop
RivalPersist ==
    /\ rival.pc = "persist"
    /\ rival.idx <= Len(rival.updated)
    /\ LET updated == rival.updated[rival.idx]
       IN  IF updated.id \in DOMAIN store
           THEN /\ store' = updateInstrument(store, updated.id,
                                [currentPrice |-> updated.currentPrice,
                                 priceLastUpdated |-> updated.priceLastUpdated])
                /\ rival' = [rival EXCEPT !.idx = @ + 1]
           ELSE /\ store' = store
                /\ rival' = [rival EXCEPT !.pc = "responded", !.response = RefreshError]
    /\ UNCHANGED <<now, call, search, refresh, lookups, inbox, cards, stats, norm,
                   posts, removal, analysis>>

RivalRespond ==
    /\ rival.pc = "persist"
    /\ rival.idx > Len(rival.updated)
    /\ rival' = [rival EXCEPT !.pc = "responded",
                              !.response = RefreshOk(Len(rival.updated))]
    /\ UNCHANGED <<now, call, search, store, refresh, lookups, inbox, cards, stats, norm,
                   posts, removal, analysis>>

\* the server holding at most MaxRaced instruments
InitRace == InitRefresh /\ Len(store) <= MaxRaced

NextRace ==
    \/ NextRefresh
    \/ RivalRequest
    \/ \E i \in 1..Len(rival.lookups) : RivalChartResponse(i)
    \/ \E i \in 1..Len(rival.lookups) : RivalQuoteResponse(i)
    \/ \E i \in 1..Len(rival.lookups) : RivalAlphaResponse(i)
    \/ RivalReturn
    \/ RivalPersist
    \/ RivalRespond

SpecRace == InitRace /\ [][NextRace]_vars

----------------------------------------------------------------------------
(* Properties of getCurrentPrice, checked under SpecQuote *)

Count(seq, x) == Cardinality({i \in 1..Len(seq) : seq[i] = x})

IsMarketData(v) == "price" \in DOMAIN v
IsError(v) == DOMAIN v = {"message"}

AlphaErrors ==
    {Error("fetch failed"), Error("Alpha Vantage price fetch failed"),
     Error("No price data available")}

\* C1: a quote from Yahoo is the result and Alpha Vantage is never invoked;
\* when Yahoo yields nothing and Alpha Vantage yields a quote, that quote is
\* the result.
QuoteFailoverFirstSuccessWins ==
    /\ call.yahooData # NullV =>
          /\ call.pc = "fulfilled"
          /\ call.outcome = call.yahooData
          /\ Count(call.sent, "alpha") = 0
    /\ (call.yahooAnswered /\ call.yahooData = NullV
            /\ call.alphaResult # NullV /\ call.alphaResult.ok) =>
          /\ call.pc = "fulfilled"
          /\ call.outcome = call.alphaResult.value

\* Yahoo failed on both endpoints and Alpha Vantage's quote was returned
QuoteFailoverWitness ==
    /\ call.sent = <<"chart", "quote", "alpha">>
    /\ call.yahooData = NullV
    /\ call.pc = "fulfilled"
    /\ call.outcome = call.alphaResult.value

\* C7: when Yahoo yields no quote and Alpha Vantage throws, the call rejects
\* and its outcome is not a quote.
AllProvidersFailedRejects ==
    (call.yahooAnswered /\ call.yahooData = NullV
        /\ call.alphaResult # NullV /\ ~call.alphaResult.ok) =>
       /\ call.pc = "rejected"
       /\ IsError(call.outcome)
       /\ ~IsMarketData(call.outcome)

\* both providers failed: Yahoo twice without a quote, Alpha Vantage with no price
AllProvidersFailedWitness ==
    /\ call.sent = <<"chart", "quote", "alpha">>
    /\ call.alphaResult = [ok |-> FALSE, error |-> Error("No price data available")]
    /\ call.pc = "rejected"

\* C8: the failure of getCurrentPrice carries the last provider error: the
\* error Alpha Vantage raised is the only one this failure value can stem from.
FailureCarriesLastError ==
    call.pc = "rejected" =>
        \A e \in AlphaErrors :
            Rethrow(call.ticker, e) = call.outcome => e = call.alphaResult.error

\* C10 as stated: Yahoo receives at most one request, Alpha Vantage at most one.
AtMostOneRequestPerProvider ==
    /\ Count(call.sent, "chart") + Count(call.sent, "quote") <= 1
    /\ Count(call.sent, "alpha") <= 1

\* C10 amended: each endpoint is requested at most once (Yahoo's chart endpoint,
\* then Yahoo's quote endpoint only after the chart request, then Alpha Vantage).
AtMostOneRequestPerEndpoint ==
    /\ Count(call.sent, "chart") <= 1
    /\ Count(call.sent, "quote") <= 1
    /\ Count(call.sent, "alpha") <= 1
    /\ \A i \in 1..Len(call.sent) :
          call.sent[i] = "quote" => i > 1 /\ call.sent[i - 1] = "chart"

\* a settled call that used all three endpoints
AllEndpointsUsedWitness ==
    /\ Settled(call)
    /\ call.sent = <<"chart", "quote", "alpha">>

----------------------------------------------------------------------------
(* Properties of searchInstrument, checked under SpecSearch *)

\* C2: Alpha Vantage is consulted exactly when searchYahoo returned the empty
\* list (its answer to every error too); a non-empty Yahoo list is the response
\* and Alpha Vantage is not consulted.
SearchFailover ==
    /\ Count(search.sent, "alpha") > 0 <=>
          /\ search.yahoo # "none"
          /\ search.yahoo \in {"throw", "error"} \/ search.yahooResults = <<>>
    /\ search.yahooResults # <<>> =>
          /\ search.pc = "responded"
          /\ search.response = SearchOk(search.yahooResults)
          /\ search.alpha = "none"

\* Yahoo answered 200 with entries that were all filtered out, Alpha Vantage
\* was consulted and its matches are the response
SearchFailoverWitness ==
    /\ search.yahoo = "ok"
    /\ search.yahooResults = <<>>
    /\ search.alpha = "ok"
    /\ search.pc = "responded"
    /\ Len(search.response.body) > 0

\* C9: the response to a search whose providers both failed (rejected fetch or
\* non-2xx) differs from the response when both answered empty result sets.
SearchNotFoundDistinctFromFailure ==
    (/\ search.pc = "responded"
     /\ search.yahoo \in {"throw", "error"}
     /\ search.alpha \in {"throw", "error"}) =>
        search.response # SearchOk(searchInstrument(Ok(<<>>), Ok(<<>>)))

\* the entries of a Yahoo body that have a symbol and a short name
Accepted(quotes) ==
    SelectSeq(quotes, LAMBDA q : q.symbol \notin {NullV, Str("")}
                                   /\ q.shortname \notin {NullV, Str("")})

Shorter(a, b) == IF a < b THEN a ELSE b

\* C22: each provider's results are the first five at most of what it sent
\* (for Yahoo, of the entries with a symbol and a short name), in the order it
\* sent them; an empty result set gives an empty list, not an error.
SearchKeepsProviderPrefix ==
    /\ search.yahoo = "ok" =>
          LET accepted == Accepted(search.yahooBody)
          IN  /\ Len(search.yahooResults) = Shorter(5, Len(accepted))
              /\ \A i \in 1..Len(search.yahooResults) :
                    /\ search.yahooResults[i].ticker = accepted[i].symbol.str
                    /\ search.yahooResults[i].name = accepted[i].shortname.str
    /\ search.alpha = "ok" =>
          /\ search.response.status = 200
          /\ Len(search.response.body) = Shorter(5, Len(search.alphaBody))
          /\ \A i \in 1..Len(search.response.body) :
                /\ search.response.body[i].ticker = search.alphaBody[i].symbol.str
                /\ search.response.body[i].name = search.alphaBody[i].name.str

\* Yahoo sent six entries, all accepted and not all alike: five are returned
SearchPrefixWitness ==
    /\ search.yahoo = "ok"
    /\ Len(search.yahooBody) = 6
    /\ Len(Accepted(search.yahooBody)) = 6
    /\ search.yahooBody[1] # search.yahooBody[2]
    /\ Len(search.yahooResults) = 5
    /\ search.response = SearchOk(search.yahooResults)

----------------------------------------------------------------------------
(* Properties of updatePrices and its route, checked under SpecRefresh *)

Returned == refresh.pc \in {"persist", "responded"}

\* the instrument with the price fields of a quote
Refreshed(instrument, data) ==
    [instrument EXCEPT !.currentPrice = Str(NumToString(data.price)),
                       !.priceLastUpdated = data.lastUpdate]

Succeeded == {i \in 1..Len(lookups) : lookups[i].ok}

\* C3: at each position the result is the input instrument itself when its
\* lookup failed and the input instrument with the quote's price fields when
\* its lookup succeeded, whatever the other lookups did.
BulkRefreshIsolation ==
    Returned =>
        \A i \in 1..Len(refresh.instruments) :
            /\ i \in DOMAIN refresh.updated
            /\ lookups[i].ok =>
                  refresh.updated[i] = Refreshed(refresh.instruments[i], lookups[i].data)
            /\ ~lookups[i].ok => refresh.updated[i] = refresh.instruments[i]

\* three instruments, the second lookup failed, the first and third succeeded
BulkRefreshIsolationWitness ==
    /\ Returned
    /\ Len(refresh.instruments) = 3
    /\ Succeeded = {1, 3}
    /\ refresh.updated[2] = refresh.instruments[2]
    /\ refresh.updated[1] # refresh.instruments[1]
    /\ refresh.updated[3] # refresh.instruments[3]

\* C4: the result has one element per input instrument, in the input order.
UpdatePricesKeepsLengthAndOrder ==
    Returned =>
        /\ Len(refresh.updated) = Len(refresh.instruments)
        /\ \A i \in 1..Len(refresh.instruments) :
              refresh.updated[i].id = refresh.instruments[i].id

\* a full store whose lookups all failed, sorted by getInstruments out of id order
KeepsLengthWitness ==
    /\ Returned
    /\ Len(refresh.instruments) = MaxInstruments
    /\ Succeeded = {}
    /\ \E i \in 1..Len(refresh.updated) : refresh.updated[i].id # i

\* C5: the count of the response is the number of instruments whose lookup
\* succeeded.
CountIsNumberOfSuccesses ==
    (refresh.pc = "responded" /\ refresh.response.status = 200) =>
        refresh.response.count = Cardinality(Succeeded)

Started(l) == l.state # "pending" \/ l.call.pc # "idle"

\* C6: no lookup settles before every lookup has been started, and updatePrices
\* has returned only if every lookup has settled.
WaitForAllJoin ==
    /\ Len(lookups) = Len(refresh.instruments)
    /\ (\E i \in 1..Len(lookups) : lookups[i].state # "pending") =>
          \A j \in 1..Len(lookups) : Started(lookups[j])
    /\ Returned => \A i \in 1..Len(lookups) : lookups[i].state # "pending"

\* a failed lookup has settled while the others are still in flight, and
\* updatePrices has not returned
WaitForAllWitness ==
    /\ refresh.pc = "lookups"
    /\ Len(lookups) = 3
    /\ lookups[1].state = "fulfilled" /\ ~lookups[1].ok
    /\ lookups[2].state = "pending" /\ lookups[2].call.pc = "quote"
    /\ lookups[3].state = "pending" /\ lookups[3].call.pc = "chart"

\* the lookups of the refresh that have failed
Failed == {i \in 1..Len(lookups) : lookups[i].state = "fulfilled" /\ ~lookups[i].ok}

\* C12: whichever lookups fail, the refresh request is answered with success,
\* and the stored currentPrice and priceLastUpdated of every instrument whose
\* lookup failed are those read when the request began.
LookupFailuresNotSurfaced ==
    /\ refresh.pc = "responded" => refresh.response = RefreshOk(Len(refresh.instruments))
    /\ \A i \in Failed :
          LET before == refresh.instruments[i]
          IN  /\ before.id \in DOMAIN store
              /\ store[before.id].currentPrice = before.currentPrice
              /\ store[before.id].priceLastUpdated = before.priceLastUpdated

\* answered after every lookup of a full store failed, one instrument priced
AllLookupsFailedWitness ==
    /\ refresh.pc = "responded"
    /\ refresh.response.status = 200
    /\ Len(refresh.instruments) = MaxInstruments
    /\ Failed = 1..MaxInstruments
    /\ \E id \in DOMAIN store : store[id].currentPrice # NullV

-----------------------------------------------------------------------------
(* C11: no call blocks for ever: once getCurrentPrice has been invoked it  *)
(* eventually returns, with a quote or a failure, even if a provider stays   *)
(* silent.                                                                 *)

GetCurrentPriceReturns == (call.pc # "idle") ~> Settled(call)

-----------------------------------------------------------------------------
(* Properties of the portfolio figures, checked under SpecPortfolio *)

Rendered == cards # NullV

\* C13: a card whose current price is 0 (a stored null price reads as 0) has
\* currentValue 0 and profitLossPercent 0, neither NaN nor infinite, and the
\* shares implied for a price that is not above 0 are 0.
ZeroPriceFigures ==
    Rendered =>
        \A i \in 1..Len(cards.data) :
            /\ cards.data[i].currentPrice = Num(0) =>
                  /\ cards.data[i].currentValue = Num(0)
                  /\ cards.data[i].profitLossPercent = Num(0)
            /\ ~JsGt(cards.data[i].currentPrice, Num(0)) => SharesOf(cards.input[i]) = Num(0)

Answered == stats.pc = "responded"

\* what an instrument is said to be worth: nothing at price 0
WorthOf(inst) == IF CurrentPriceOf(inst) = Num(0) THEN Num(0) ELSE CurrentValueOf(inst)

RECURSIVE SumInvested(_)
SumInvested(instruments) ==
    IF instruments = <<>> THEN Num(0)
    ELSE JsAdd(InvestedOf(Head(instruments)), SumInvested(Tail(instruments)))

RECURSIVE SumWorth(_)
SumWorth(instruments) ==
    IF instruments = <<>> THEN Num(0)
    ELSE JsAdd(WorthOf(Head(instruments)), SumWorth(Tail(instruments)))

\* the list {1000 at price 100}, {500 at price 0}
IsExample(instruments) ==
    /\ Len(instruments) = 2
    /\ instruments[1].investedAmount = Str("1000") /\ instruments[1].currentPrice = Str("100")
    /\ instruments[2].investedAmount = Str("500") /\ instruments[2].currentPrice = Str("0")

\* C14: the totals are plain sums of the per-instrument figures, an instrument
\* at price 0 adding 0 to the current value, and the percentage is
\* totalProfitLoss / totalInvested * 100; for {1000 at 100}, {500 at 0} they
\* are 1500, 1000, -500 and -100/3 (-33.33).
StatsAreSimpleSums ==
    Answered =>
        LET invested == SumInvested(stats.input)
            worth == SumWorth(stats.input)
            profitLoss == JsSub(worth, invested)
        IN  /\ stats.response.totalInvested = JsonNumber(invested)
            /\ stats.response.totalCurrentValue = JsonNumber(worth)
            /\ stats.response.totalProfitLoss = JsonNumber(profitLoss)
            /\ stats.response.totalProfitLossPercent =
                  JsonNumber(PercentOfInvested(profitLoss, invested))
            /\ IsExample(stats.input) =>
                  /\ stats.response.totalInvested = Num(1500)
                  /\ stats.response.totalCurrentValue = Num(1000)
                  /\ stats.response.totalProfitLoss = Num(0 - 500)
                  /\ stats.response.totalProfitLossPercent = Ratio(0 - 100, 3)

\* the types of the instruments of a list
TypesOf(instruments) == {instruments[i].type : i \in 1..Len(instruments)}

\* the sum of the values of a byType object, null when one of them is no number
RECURSIVE SumValues(_, _)
SumValues(byType, keys) ==
    IF keys = {} THEN Num(0)
    ELSE LET k == CHOOSE x \in keys : TRUE
         IN  JsAdd(byType[k], SumValues(byType, keys \ {k}))

\* C15: for a non-empty list the values of byType add up to totalCurrentValue
\* and byType has a key for exactly the types present.
ByTypePartitionsTotal ==
    (Answered /\ stats.input # <<>>) =>
        /\ DOMAIN stats.response.byType = TypesOf(stats.input)
        /\ JsEq(SumValues(stats.response.byType, DOMAIN stats.response.byType),
                ToNumber(stats.response.totalCurrentValue))

\* an answer with zeros throughout and no type
ZeroStats(body) ==
    /\ body.status = 200
    /\ body.totalInvested = Num(0)
    /\ body.totalCurrentValue = Num(0)
    /\ body.totalProfitLoss = Num(0)
    /\ body.totalProfitLossPercent = Num(0)

\* C16: an empty list gives zeros and an empty byType; instruments with a zero
\* invested amount give finite zero figures, per type too, never NaN or an error.
DegenerateInputGivesZeros ==
    Answered =>
        /\ stats.input = <<>> =>
              ZeroStats(stats.response) /\ DOMAIN stats.response.byType = {}
        /\ (\A i \in 1..Len(stats.input) : InvestedOf(stats.input[i]) = Num(0)) =>
              /\ ZeroStats(stats.response)
              /\ \A ty \in DOMAIN stats.response.byType : stats.response.byType[ty] = Num(0)

\* the list with its elements in the order p
Permuted(instruments, p) == [i \in 1..Len(instruments) |-> instruments[p[i]]]

\* C17: the answer is the same for every order of the instruments, and
\* computing it leaves the stored instruments as they were.
StatsOrderIndependent ==
    Answered =>
        /\ \A p \in Permutations(1..Len(stats.input)) :
              StatsBody(Permuted(stats.input, p), now) = StatsBody(stats.input, now)
        /\ getInstruments(store) = stats.input

-----------------------------------------------------------------------------
(* Properties of the Yahoo payload normalisers, checked under SpecNormalise *)

Normalised == norm.fn # "none"

\* C18: from a chart payload the quote's price is the regular market price
\* whenever the payload has one, 0 included, and the previous close only when
\* it has none.
LivePricePreferred ==
    (Normalised /\ norm.fn # "quote" /\ norm.body.meta) =>
        /\ norm.body.regularMarketPrice # NullV =>
              norm.out # NullV /\ norm.out.price = norm.body.regularMarketPrice
        /\ (norm.body.regularMarketPrice = NullV /\ norm.body.previousClose # NullV) =>
              norm.out # NullV /\ norm.out.price = norm.body.previousClose

\* the previous close a payload carries
PreviousCloseOf(body) ==
    IF IsChartPayload(body) THEN (IF body.meta THEN body.previousClose ELSE NullV)
    ELSE IF body.result THEN Coalesce(body.regularMarketPreviousClose, body.previousClose)
    ELSE NullV

\* the current price a payload carries
LivePriceOf(body) ==
    IF IsChartPayload(body) THEN (IF body.meta THEN body.regularMarketPrice ELSE NullV)
    ELSE IF body.result THEN body.regularMarketPrice
    ELSE NullV

\* C19: on the chart and quote paths of getYahooPrice a payload with a current
\* price and a non-zero previous close gives change = current - previousClose
\* and changePercent = change / previousClose * 100; 150 and 100 give 50 and 50.
ChangeFromPreviousClose ==
    (norm.fn \in {"chart", "quote"}
        /\ LivePriceOf(norm.body) # NullV
        /\ PreviousCloseOf(norm.body) \notin {NullV, Num(0)}) =>
        LET change == JsSub(LivePriceOf(norm.body), PreviousCloseOf(norm.body))
        IN  /\ norm.out # NullV
            /\ norm.out.change = change
            /\ norm.out.changePercent =
                  JsMul(JsDiv(change, PreviousCloseOf(norm.body)), Num(100))
            /\ norm.body \in {ExampleChart, ExampleQuote} =>
                  norm.out.change = Num(50) /\ norm.out.changePercent = Num(50)

\* the chart path applied to 150 against 100
ChangeExampleWitness ==
    /\ norm.fn = "chart"
    /\ norm.body = ExampleChart
    /\ norm.out.price = Num(150)
    /\ norm.out.change = Num(50)
    /\ norm.out.changePercent = Num(50)

\* C20: every function deriving a quote from a Yahoo payload gives
\* changePercent 0 for a previous close of 0: no NaN, no infinity, no failure.
ZeroPreviousCloseGivesZeroPercent ==
    (Normalised /\ PreviousCloseOf(norm.body) = Num(0)) =>
        /\ IsChartPayload(norm.body) => norm.out # NullV
        /\ norm.out # NullV => norm.out.changePercent = Num(0)

-----------------------------------------------------------------------------
(* Properties of mapYahooType, checked under SpecTypeMap *)

CanonicalTypes == {"azione", "ETF", "obbligazione", "crypto"}

\* the spellings of a provider type
Spellings(upper, lower, capital) == {Str(upper), Str(lower), Str(capital)}

\* C21: for every type string in any letter case and for a missing type the
\* result is one of azione, ETF, obbligazione, crypto: EQUITY gives azione,
\* ETF, MUTUALFUND and INDEX give ETF, CRYPTOCURRENCY gives crypto, BOND gives
\* obbligazione, anything else gives azione.
TypeMappingTotal ==
    norm.fn = "mapYahooType" =>
        LET arg == TypeArgument(norm.body)
        IN  /\ norm.out \in CanonicalTypes
            /\ norm.out =
                  IF arg \in Spellings("ETF", "etf", "Etf")
                            \cup Spellings("MUTUALFUND", "mutualfund", "MutualFund")
                            \cup Spellings("INDEX", "index", "Index")
                  THEN "ETF"
                  ELSE IF arg \in Spellings("CRYPTOCURRENCY", "cryptocurrency", "Cryptocurrency")
                  THEN "crypto"
                  ELSE IF arg \in Spellings("BOND", "bond", "Bond")
                  THEN "obbligazione"
                  ELSE "azione"

\* a lower-case mapped type taken from typeDisp, the quoteType being empty
TypeMappingWitness ==
    /\ norm.fn = "mapYahooType"
    /\ norm.body.quoteType = Str("")
    /\ norm.body.typeDisp = Str("cryptocurrency")
    /\ norm.out = "crypto"

-----------------------------------------------------------------------------
(* Further properties of the price refresh, checked under SpecRefresh *)

\* a number that is neither NaN nor infinite and not below 0
IsPrice(v) == IsNum(v) /\ v.n >= 0

\* C23: every quote a lookup obtained has a price that is a number >= 0, and
\* the price stored for an instrument is null or the decimal form of such a
\* number: a payload whose price is missing or does not parse gives no quote.
QuotesCarryNumericPrice ==
    /\ \A i \in Succeeded : IsPrice(lookups[i].data.price)
    /\ \A id \in DOMAIN store :
          store[id].currentPrice # NullV => IsPrice(ParseFloat(store[id].currentPrice.str))

-----------------------------------------------------------------------------
(* Properties of POST and DELETE /api/instruments, checked under SpecCreate *)

\* C24: every stored instrument has an invested amount above 0 and a ticker
\* that is not empty, whatever the requests carried.
StoredInstrumentsValid ==
    \A id \in DOMAIN store :
        /\ JsGt(ParseFloat(store[id].investedAmount.str), Num(0))
        /\ store[id].ticker # ""

\* the requests answered 409
Refused == {r \in 1..Len(posts) : posts[r].response = DuplicateInstrument}

\* C25: no two stored instruments have tickers that are equal when letter
\* case is ignored, however the requests interleave, and a request refused
\* with 409 has created nothing.
TickersUnique ==
    /\ \A a \in DOMAIN store : \A b \in DOMAIN store :
          a # b => ToLowerCase(store[a].ticker) # ToLowerCase(store[b].ticker)
    /\ \A r \in Refused : posts[r].id = 0

-----------------------------------------------------------------------------
(* The frame of the price refresh, checked under SpecRefresh *)

\* an instrument with the price fields of another
WithPriceFieldsOf(instrument, other) ==
    [instrument EXCEPT !.currentPrice = other.currentPrice,
                       !.priceLastUpdated = other.priceLastUpdated]

\* C26: an element returned by updatePrices differs from its input instrument
\* in currentPrice and priceLastUpdated at most, and until the route starts
\* writing the store holds what was read: updatePrices itself stores nothing.
RefreshWritesPriceFieldsOnly ==
    /\ Returned =>
          \A i \in 1..Len(refresh.updated) :
              WithPriceFieldsOf(refresh.updated[i], refresh.instruments[i])
                  = refresh.instruments[i]
    /\ (refresh.pc = "lookups" \/ (refresh.pc = "persist" /\ refresh.idx = 1)) =>
          getInstruments(store) = refresh.instruments

\* updatePrices has returned a new price for a lower-case ticker, not yet stored
PriceFieldsOnlyWitness ==
    /\ refresh.pc = "persist" /\ refresh.idx = 1
    /\ \E i \in Succeeded :
          /\ refresh.instruments[i].ticker = "aapl"
          /\ refresh.updated[i].currentPrice # refresh.instruments[i].currentPrice
          /\ store[refresh.instruments[i].id] = refresh.instruments[i]

\* the requests whose price lookup has settled
LookedUp == {r \in 1..Len(posts) : posts[r].call.pc \in {"fulfilled", "rejected"}}

-----------------------------------------------------------------------------
(* A price refresh beside DELETE requests, checked under SpecRefreshDelete *)

\* C29: whatever is deleted after the refresh has read the instruments, the
\* refresh is answered with success, every instrument still stored has the
\* price fields updatePrices returned for it, and no deleted instrument is
\* stored again.
RefreshSurvivesDelete ==
    /\ refresh.pc = "responded" =>
          /\ refresh.response.status = 200
          /\ \A i \in 1..Len(refresh.updated) :
                refresh.updated[i].id \in DOMAIN store =>
                    WithPriceFieldsOf(store[refresh.updated[i].id], refresh.updated[i])
                        = store[refresh.updated[i].id]
    /\ removal.deleted \cap DOMAIN store = {}

----------------------------------------------------------------------------
(* Properties of concurrent price refreshes, checked under SpecRace *)

\* C28: under any interleaving of two refresh requests, an instrument's stored
\* priceLastUpdated never decreases: once it is a time, every write leaves a
\* time at least as late (so a request whose lookup failed does not put back
\* the older price over the one another request stored in the meantime).
PriceLastUpdatedNeverDecreases ==
    [][\A id \in DOMAIN store :
          "time" \in DOMAIN store[id].priceLastUpdated =>
              /\ "time" \in DOMAIN store'[id].priceLastUpdated
              /\ store'[id].priceLastUpdated.time >= store[id].priceLastUpdated.time]_vars

----------------------------------------------------------------------------
(* The figures of an instrument with a positive price, checked under       *)
(* SpecFigures                                                             *)

PositivePrice(inst) == JsGt(CurrentPriceOf(inst), Num(0))

Prepared == analysis.pc = "context"

RECURSIVE SumProfitLoss(_)
SumProfitLoss(instruments) ==
    IF instruments = <<>> THEN Num(0)
    ELSE JsAdd(ProfitLossOf(Head(instruments)), SumProfitLoss(Tail(instruments)))

=============================================================================
